---- MODULE Spec2Model ----
(***************************************************************************)
(* Model of the mail-to-Jira automation: the inbox monitor loop            *)
(* (JiraTicketAutomation.monitor_inbox), the per-message pipeline          *)
(* (process_new_email), the summarizer (EmailSummarizer.summarize_email),  *)
(* the Jira calls (create_jira_ticket / update_jira_ticket), the status    *)
(* ledger (EmailProcessingDashboard) with its lock, and the signal         *)
(* handler of main().                                                      *)
(***************************************************************************)
EXTENDS Integers, Sequences, FiniteSets, TLC

(***************************************************************************)
(* Bounds of the model.                                                    *)
(***************************************************************************)
NumMsgs == 2        \* messages in the mailbox
NumObservers == 1   \* dashboard threads calling the ledger concurrently
MaxIds == 4         \* cap on the number of email ids handed out
MaxFragments == 3   \* pieces a subject line is put together from
MaxUpdates == 3     \* update_status calls made on the ledger taken alone
TicksPerSecond == 2 \* readings of datetime.now() that fall in one second

Msgs == 1..NumMsgs
Worker == 0
Observers == 1..NumObservers
Free == -1

(***************************************************************************)
(* Python values.  A str is modelled by the document it encodes (doc), so  *)
(* that json.dumps / json.loads are real conversions that can fail.        *)
(***************************************************************************)
PyNone == [t |-> "None"]
NotJson == [t |-> "notjson"]
\* A text value: its content and its length in characters.
PyText(x, n) == [t |-> "text", s |-> x, len |-> n]
PyList(x) == [t |-> "list", l |-> x]
PyDict(d) == [t |-> "dict", d |-> d]
PyStr(doc) == [t |-> "str", doc |-> doc]

json_dumps(v) == PyStr(v)

\* json.loads: the decoded document, or the exception it raises.
json_loads(s) ==
    IF s.t # "str" THEN [ok |-> FALSE, exc |-> "TypeError"]
    ELSE IF s.doc = NotJson THEN [ok |-> FALSE, exc |-> "JSONDecodeError"]
    ELSE [ok |-> TRUE, value |-> s.doc]

FallbackText == "Summary unavailable due to processing error"

FallbackDoc ==
    PyDict([summary |-> PyText(FallbackText, 43), participants |-> PyList(<<>>),
            priority |-> PyText("Low", 3), category |-> PyText("Other", 5)])

\* A JSON object without the expected keys.
OtherKeysDoc == PyDict([note |-> PyText("hello", 5)])

\* A JSON object whose summary is null.
NullSummaryDoc ==
    PyDict([summary |-> PyNone, participants |-> PyList(<<>>),
            priority |-> PyText("Low", 3), category |-> PyText("Other", 5)])

\* A well-formed reply; its summary is longer than the 100 characters the
\* ledger detail keeps.
GoodDoc ==
    PyDict([summary |-> PyText("Build is failing", 250), participants |-> PyList(<<"bob">>),
            priority |-> PyText("High", 4), category |-> PyText("Technical", 9)])

\* A JSON document that is an array, not an object.
ArrayDoc == PyList(<<"a">>)

(***************************************************************************)
(* What client.chat.completions.create can do.                             *)
(***************************************************************************)
Upstream ==
    { [kind |-> "raise", exc |-> "APIConnectionError"],
      [kind |-> "raise", exc |-> "RateLimitError"],
      [kind |-> "falsy"],                       \* completion is falsy
      [kind |-> "nochoices"],                   \* completion.choices == []
      [kind |-> "content", content |-> PyNone], \* message.content is None
      [kind |-> "content", content |-> PyStr(NotJson)],
      [kind |-> "content", content |-> PyStr(ArrayDoc)],
      [kind |-> "content", content |-> PyStr(NullSummaryDoc)],
      [kind |-> "content", content |-> PyStr(OtherKeysDoc)],
      [kind |-> "content", content |-> PyStr(GoodDoc)] }

\* The except branch of summarize_email.
SummarizeOnError == json_dumps(FallbackDoc)

\* EmailSummarizer.summarize_email: the value returned for an upstream outcome.
summarize_email(up) ==
    CASE up.kind = "raise" -> SummarizeOnError
      [] up.kind = "nochoices" -> SummarizeOnError   \* choices[0]: IndexError
      [] up.kind = "falsy" -> PyNone                 \* falls off the end
      [] up.kind = "content" -> up.content

(***************************************************************************)
(* process_new_email, lines 131-137: decoding the summarizer's reply.      *)
(***************************************************************************)
SummaryDetailChars == 100
NoSummaryText == PyText("No summary available", 20)

\* dict.get(key, default)
DictGet(d, key, default) == IF key \in DOMAIN d THEN d[key] ELSE default

\* summary[:100]
Slice100(v) ==
    IF v.t = "text"
    THEN PyText(v.s, IF v.len < SummaryDetailChars THEN v.len ELSE SummaryDetailChars)
    ELSE v

\* The outcome of lines 131-137 on the summarizer's return value: the summary
\* shown in the ledger, or the exception that sends the message to line 139.
DecodeSummary(resp) ==
    LET loaded == json_loads(resp) IN
    IF ~loaded.ok THEN [ok |-> FALSE, exc |-> loaded.exc]
    ELSE IF loaded.value.t # "dict" THEN [ok |-> FALSE, exc |-> "AttributeError"]
    ELSE LET summary == DictGet(loaded.value.d, "summary", NoSummaryText) IN
         IF summary.t \notin {"text", "list"} THEN [ok |-> FALSE, exc |-> "TypeError"]
         ELSE [ok |-> TRUE, summary |-> summary, shown |-> Slice100(summary)]

(***************************************************************************)
(* categorize_email.  A subject is a sequence of characters.               *)
(***************************************************************************)
UpperCase == <<"A","B","C","D","E","F","G","H","I","J","K","L","M",
               "N","O","P","Q","R","S","T","U","V","W","X","Y","Z">>
LowerCase == <<"a","b","c","d","e","f","g","h","i","j","k","l","m",
               "n","o","p","q","r","s","t","u","v","w","x","y","z">>
Digits == {"0","1","2","3","4","5","6","7","8","9"}

IsUpper(c) == \E i \in 1..Len(UpperCase) : UpperCase[i] = c
IsDigit(c) == c \in Digits

\* str.lower()
Lower(s) ==
    [i \in 1..Len(s) |->
        IF IsUpper(s[i]) THEN LowerCase[CHOOSE k \in 1..Len(UpperCase) : UpperCase[k] = s[i]]
        ELSE s[i]]

\* keyword in text
Contains(text, kw) ==
    \E i \in 1..(Len(text) - Len(kw) + 1) : SubSeq(text, i, i + Len(kw) - 1) = kw

spam_keywords ==
    { <<"s","p","a","m">>,
      <<"a","d","v","e","r","t","i","s","e","m","e","n","t">>,
      <<"p","r","o","m","o","t","i","o","n">>,
      <<"o","f","f","e","r">>,
      <<"d","e","a","l">> }

\* The end of the longest run of characters satisfying the class from position i.
RECURSIVE RunEnd(_, _, _)
RunEnd(s, i, upper) ==
    IF i + 1 <= Len(s) /\ (IF upper THEN IsUpper(s[i + 1]) ELSE IsDigit(s[i + 1]))
    THEN RunEnd(s, i + 1, upper) ELSE i

\* Whether [A-Z]+-\d+ matches at position i, and where the match ends.
MatchAt(s, i) ==
    IF ~IsUpper(s[i]) THEN 0
    ELSE LET j == RunEnd(s, i, TRUE) IN
         IF j + 2 <= Len(s) /\ s[j + 1] = "-" /\ IsDigit(s[j + 2])
         THEN RunEnd(s, j + 2, FALSE) ELSE 0

\* re.findall(r'[A-Z]+-\d+', s)[0] when there is a match, else <<>>.
FirstTicketRef(s) ==
    LET starts == {i \in 1..Len(s) : MatchAt(s, i) > 0} IN
    IF starts = {} THEN <<>>
    ELSE LET i == CHOOSE x \in starts : \A y \in starts : x <= y IN
         SubSeq(s, i, MatchAt(s, i))

\* Mutant: the keywords are looked for in the subject as written, without
\* .lower().
categorize_email_cased(subj) ==
    IF \E kw \in spam_keywords : Contains(subj, kw)
    THEN [kind |-> "spam", key |-> <<>>]
    ELSE IF FirstTicketRef(subj) # <<>>
    THEN [kind |-> "existing", key |-> FirstTicketRef(subj)]
    ELSE [kind |-> "new", key |-> <<>>]

\* Mutant: the ticket reference is looked for before the spam keywords.
categorize_email_keyfirst(subj) ==
    IF FirstTicketRef(subj) # <<>>
    THEN [kind |-> "existing", key |-> FirstTicketRef(subj)]
    ELSE IF \E kw \in spam_keywords : Contains(Lower(subj), kw)
    THEN [kind |-> "spam", key |-> <<>>]
    ELSE [kind |-> "new", key |-> <<>>]

categorize_email(subj) ==
    IF \E kw \in spam_keywords : Contains(Lower(subj), kw)
    THEN [kind |-> "spam", key |-> <<>>]
    ELSE IF FirstTicketRef(subj) # <<>>
    THEN [kind |-> "existing", key |-> FirstTicketRef(subj)]
    ELSE [kind |-> "new", key |-> <<>>]

\* The parsed messages the mailbox can hold: subject and attachments.
SpamSubject == <<"H","o","t"," ","D","e","a","l">>
TicketSubject == <<"F","i","x"," ","T","I","C","K","-","4","5">>
PlainSubject == <<"S","e","r","v","e","r"," ","d","o","w","n">>

Emails ==
    { [subject |-> SpamSubject, attachments |-> FALSE],
      [subject |-> TicketSubject, attachments |-> TRUE],
      [subject |-> PlainSubject, attachments |-> TRUE],
      [subject |-> PlainSubject, attachments |-> FALSE] }

(***************************************************************************)
(* State.                                                                  *)
(***************************************************************************)
VARIABLES
    running,            \* JiraTicketAutomation.running
    mainpc,             \* main thread: "serving", "handler" (after stop()), "exited"
    should_run,         \* EmailProcessingDashboard.should_run
    imapAlive,          \* whether the IMAP session self.imap is still usable
    seen,               \* mailbox: the messages flagged \Seen
    wpc,                \* worker thread: position in monitor_inbox / process_new_email
    messages,           \* monitor_inbox: messages[0].split()
    idx,                \* monitor_inbox: position of the for loop in messages
    email_id,           \* process_new_email: email_id (0 outside the call)
    email_data,         \* process_new_email: email_data (subject, attachments)
    summary_response,   \* process_new_email: summary_response
    summary,            \* process_new_email: summary
    category,           \* process_new_email: category
    upd,                \* the update_status call the worker is making
    nextId,             \* source of fresh uuid4 values
    clock,              \* datetime.now()
    processing_status,  \* EmailProcessingDashboard.processing_status
    lock,               \* EmailProcessingDashboard.lock: its holder, or Free
    ostack,             \* observer threads: the frames of their ledger calls
    jiraIssues,         \* issues created in the tracker
    processed_tickets,  \* JiraTicketAutomation.processed_tickets
    notifications,      \* notifications sent to senders
    hist                \* per message: what the pipeline did on its behalf

mailVars == <<seen, imapAlive>>
mainVars == <<running, mainpc, should_run>>
loopVars == <<messages, idx>>
procVars == <<email_id, email_data, summary_response, summary, category, upd>>
ledgerVars == <<processing_status, lock, clock>>
jiraVars == <<jiraIssues, processed_tickets, notifications>>
vars == <<running, mainpc, should_run, imapAlive, seen, wpc,
          messages, idx, email_id, email_data, summary_response, summary, category, upd,
          nextId, clock,
          processing_status, lock, ostack, jiraIssues, processed_tickets,
          notifications, hist>>

NotCalled == [t |-> "unset"]
NoEmail == [subject |-> <<>>, attachments |-> FALSE]
NoUpdate == [status |-> "", details |-> <<>>, next |-> ""]
NoHist == [handed |-> 0, id |-> 0, calls |-> 0, trackerFailed |-> FALSE,
           decodeFailed |-> FALSE, returned |-> FALSE, atStop |-> FALSE, created |-> {},
           description |-> PyNone]

Terminal == {"Completed", "Failed", "Skipped"}

Init ==
    /\ running = TRUE
    /\ mainpc = "serving"
    /\ should_run = TRUE
    /\ imapAlive = TRUE
    /\ seen = {}
    /\ wpc = "while"
    /\ messages = <<>>
    /\ idx = 1
    /\ email_id = 0
    /\ email_data = NoEmail
    /\ summary_response = NotCalled
    /\ summary = NotCalled
    /\ category = NotCalled
    /\ upd = NoUpdate
    /\ nextId = 1
    /\ clock = 0
    /\ processing_status = <<>>
    /\ lock = Free
    /\ ostack = [t \in Observers |-> <<>>]
    /\ jiraIssues = {}
    /\ processed_tickets = {}
    /\ notifications = {}
    /\ hist = [m \in Msgs |-> NoHist]

Alive == mainpc # "exited"

(***************************************************************************)
(* monitor_inbox                                                           *)
(***************************************************************************)
\* The message numbers of `self.imap.search(None, 'UNSEEN')`, ascending.
RECURSIVE Ascending(_)
Ascending(S) ==
    IF S = {} THEN <<>>
    ELSE LET m == CHOOSE x \in S : \A y \in S : x <= y IN <<m>> \o Ascending(S \ {m})

imap_search_unseen == Ascending(Msgs \ seen)

\* Mutant: the fetch leaves the flags alone, as a BODY.PEEK[] fetch would.
imap_fetch_flags_peek(m, flags) == flags

\* FETCH (RFC822) on a mailbox selected read-write sets the \Seen flag.
imap_fetch_flags(m, flags) == flags \cup {m}

\* Mutant: no try/except around the body of the for loop, so the exception
\* reaches the handler of lines 201-203.
OnMessageError_unguarded == "raised"

\* Where the worker goes when fetching or processing a message raised (line 196).
OnMessageError == "for"

\* Where the worker goes when select or search raised (lines 201-203).
OnMonitorError == "raised"

\* Mutant: the for loop does not look at the run-flag.
ForBreaks_never(flag) == FALSE

\* if not self.running: break (lines 186-187).
ForBreaks(flag) == ~flag

\* while self.running: (line 181).
MonitorWhile ==
    /\ Alive /\ wpc = "while"
    /\ wpc' = IF running THEN "poll" ELSE "returned"
    /\ UNCHANGED <<mailVars, mainVars, loopVars, procVars, ledgerVars, jiraVars, nextId,
                   ostack, hist>>

\* select, search (lines 182-183).  The session may abort during either
\* command, and stays aborted.
MonitorPoll ==
    /\ Alive /\ wpc = "poll"
    /\ \E aborts \in BOOLEAN :
          IF ~imapAlive \/ aborts
          THEN wpc' = OnMonitorError /\ imapAlive' = FALSE /\ UNCHANGED loopVars
          ELSE wpc' = "for" /\ messages' = imap_search_unseen /\ idx' = 1
               /\ UNCHANGED imapAlive
    /\ UNCHANGED <<seen, mainVars, procVars, ledgerVars, jiraVars, nextId, ostack, hist>>

\* for msg_num in ...: if not self.running: break (lines 185-187).
MonitorFor ==
    /\ Alive /\ wpc = "for"
    /\ wpc' = IF idx > Len(messages) \/ ForBreaks(running) THEN "sleep" ELSE "fetch"
    /\ UNCHANGED <<mailVars, mainVars, loopVars, procVars, ledgerVars, jiraVars, nextId,
                   ostack, hist>>

\* self.imap.fetch and email.message_from_bytes (lines 189-191), then the call
\* of process_new_email with its first statement (line 116).  The content of
\* the fetched message is an input read here.  The fetch can fail with the
\* session intact (the message stays unseen) or because the session aborts.
MonitorFetch ==
    /\ Alive /\ wpc = "fetch"
    /\ nextId <= MaxIds
    /\ LET m == messages[idx] IN
       \E outcome \in {"ok", "error", "abort"}, mail \in Emails :
          IF imapAlive /\ outcome = "ok"
          THEN /\ seen' = imap_fetch_flags(m, seen)
               /\ email_id' = nextId
               /\ email_data' = mail
               /\ imapAlive' = imapAlive
               /\ nextId' = nextId + 1
               /\ hist' = [hist EXCEPT ![m].handed = @ + 1, ![m].id = nextId,
                                       ![m].returned = FALSE]
               /\ wpc' = "parse"
               /\ UNCHANGED idx
          ELSE /\ wpc' = OnMessageError
               /\ idx' = idx + 1
               /\ imapAlive' = (imapAlive /\ outcome # "abort")
               /\ UNCHANGED <<seen, email_id, email_data, nextId, hist>>
    /\ UNCHANGED <<mainVars, messages, summary_response,
                   summary, category, upd, ledgerVars, jiraVars, ostack>>

\* time.sleep(1) (line 199).
MonitorSleep ==
    /\ Alive /\ wpc = "sleep"
    /\ wpc' = "while"
    /\ UNCHANGED <<mailVars, mainVars, loopVars, procVars, ledgerVars, jiraVars, nextId,
                   ostack, hist>>
(***************************************************************************)
(* EmailProcessingDashboard.update_status, called by the worker.           *)
(***************************************************************************)
Detail(text, arg) == [text |-> text, arg |-> arg]
KeyArg(k) == [t |-> "key", k |-> k]
ExcArg(e) == [t |-> "exc", e |-> e]

\* Mutant: the worker goes on without calling update_status.
CallUpdateStatus_skipped(status, details, next) ==
    /\ upd' = upd
    /\ wpc' = next

\* self.dashboard.update_status(email_id, status, details), then go to next.
CallUpdateStatus(status, details, next) ==
    /\ upd' = [status |-> status, details |-> details, next |-> next]
    /\ wpc' = "upd_acquire"

\* Mutant: self.lock is not looked at.
LockIsFree_ignored(l) == TRUE

\* A thread entering `with self.lock` goes on when the lock is free.
LockIsFree(l) == l = Free

\* with self.lock: (line 64)
UpdateStatusAcquire ==
    /\ Alive /\ wpc = "upd_acquire"
    /\ LockIsFree(lock)
    /\ lock' = Worker
    /\ wpc' = "upd_write"
    /\ UNCHANGED <<mailVars, mainVars, loopVars, procVars, processing_status, clock,
                   jiraVars, nextId, ostack, hist>>

\* datetime.now().strftime("%Y-%m-%d %H:%M:%S"): the reading of the clock cut
\* to whole seconds.  Successive readings share a second TicksPerSecond at a
\* time.
strftime(now) == now \div TicksPerSecond

\* Mutant: the ledger is rebound to a dictionary holding the new record alone.
DictSet_rebind(d, key, value) == [k \in {key} |-> value]

\* d[key] = value on a dictionary.
DictSet(d, key, value) ==
    [k \in DOMAIN d \cup {key} |-> IF k = key THEN value ELSE d[k]]

\* self.processing_status[email_id] = {...} and the end of the with block
\* (lines 65-70).
UpdateStatusWrite ==
    /\ Alive /\ wpc = "upd_write"
    /\ processing_status' =
          DictSet(processing_status, email_id,
                  [status |-> upd.status, timestamp |-> strftime(clock + 1),
                   details |-> upd.details])
    /\ clock' = clock + 1
    /\ lock' = Free
    /\ wpc' = upd.next
    /\ upd' = NoUpdate
    /\ UNCHANGED <<mailVars, mainVars, loopVars, email_id, email_data, summary_response, summary,
                   category,
                   jiraVars, nextId, ostack, hist>>

(***************************************************************************)
(* process_new_email                                                       *)
(***************************************************************************)
\* The status written when the message has been parsed (line 119).
StatusOnReceipt == "Processing"

\* Mutant: the decoded summary is recorded under a status of its own.
StatusOnSummary_classifying == "Classifying"

\* The status written when the summary has been decoded (line 137).
StatusOnSummary == "Processing"

\* Mutant: the return of line 143 is missing.
AfterSummarizeFailure_fallthrough == "categorize"

\* After the Failed update of line 142: return (line 143).
AfterSummarizeFailure == "return"

\* Mutant: the return of line 148 is missing.
AfterSpam_fallthrough == "sync"

\* After the Skipped update of line 147: return (line 148).
AfterSpam == "return"

\* self.email_processor.parse_email(email_msg) and line 119, or lines 173-176.
ProcessParse ==
    /\ Alive /\ wpc = "parse"
    /\ \E parsed \in BOOLEAN :
          IF parsed
          THEN CallUpdateStatus(StatusOnReceipt, Detail("Email received", PyNone), "summarize")
          ELSE CallUpdateStatus("Failed",
                                Detail("Error processing email: ", ExcArg("ParseError")),
                                "return")
    /\ UNCHANGED <<mailVars, mainVars, loopVars, email_id, email_data, summary_response, summary,
                   category,
                   ledgerVars, jiraVars, nextId, ostack, hist>>

\* Lines 121-143: the summarizer call, the decoding of its reply and the status
\* update that follows.
ProcessSummarize ==
    /\ Alive /\ wpc = "summarize"
    /\ \E up \in Upstream :
          LET resp == summarize_email(up)
              dec == DecodeSummary(resp)
              m == messages[idx]
          IN /\ summary_response' = resp
             /\ IF dec.ok
                THEN /\ summary' = dec.summary
                     /\ CallUpdateStatus(StatusOnSummary, Detail("Summary: ", dec.shown),
                                         "categorize")
                     /\ UNCHANGED hist
                ELSE /\ summary' = summary
                     /\ CallUpdateStatus("Failed",
                                         Detail("Summarization failed: ", ExcArg(dec.exc)),
                                         AfterSummarizeFailure)
                     /\ hist' = [hist EXCEPT ![m].decodeFailed = TRUE]
    /\ UNCHANGED <<mailVars, mainVars, loopVars, email_id, email_data, category, ledgerVars,
                   jiraVars, nextId, ostack>>

\* Lines 145-148.
ProcessCategorize ==
    /\ Alive /\ wpc = "categorize"
    /\ category' = categorize_email(email_data.subject)
    /\ IF category'.kind = "spam"
       THEN CallUpdateStatus("Skipped", Detail("Spam detected", PyNone), AfterSpam)
       ELSE wpc' = "sync" /\ upd' = upd
    /\ UNCHANGED <<mailVars, mainVars, loopVars, email_id, email_data, summary_response, summary,
                   ledgerVars, jiraVars, nextId, ostack, hist>>

(***************************************************************************)
(* The tracker calls.                                                      *)
(***************************************************************************)
DigitSeq == <<"1","2","3","4","5","6","7","8","9">>

\* The key the tracker gives to its n-th issue.
IssueKey(n) == <<"O","P","S","-", DigitSeq[n]>>

\* What the Jira client can do inside create_jira_ticket.
CreateOutcomes(att) ==
    {"ok", "create_issue raises"} \cup (IF att THEN {"add_attachment raises"} ELSE {})

\* What the Jira client can do inside update_jira_ticket.
UpdateOutcomes(att) ==
    {"ok", "issue raises", "add_comment raises"}
        \cup (IF att THEN {"add_attachment raises"} ELSE {})

\* Mutant: the description is written without the decoded summary.
IssueDescription_placeholder(text) ==
    [head |-> "Summary:\n", summary |-> NoSummaryText, tail |-> "\n"]

\* "description": f"Summary:\n{summary}\n" (line 159).
IssueDescription(text) == [head |-> "Summary:\n", summary |-> text, tail |-> "\n"]

\* Mutant: the key is registered right after create_issue, before the
\* attachments are uploaded.
create_jira_ticket_early(outcome, issues, processed) ==
    LET key == IssueKey(Cardinality(issues) + 1) IN
    CASE outcome = "ok" ->
            [ret |-> key, issues |-> issues \cup {key}, processed |-> processed \cup {key}]
      [] outcome = "create_issue raises" ->
            [ret |-> <<>>, issues |-> issues, processed |-> processed]
      [] outcome = "add_attachment raises" ->
            [ret |-> <<>>, issues |-> issues \cup {key}, processed |-> processed \cup {key}]

\* create_jira_ticket: its return value (<<>> for None) and its effects.
create_jira_ticket(outcome, issues, processed) ==
    LET key == IssueKey(Cardinality(issues) + 1) IN
    CASE outcome = "ok" ->
            [ret |-> key, issues |-> issues \cup {key}, processed |-> processed \cup {key}]
      [] outcome = "create_issue raises" ->
            [ret |-> <<>>, issues |-> issues, processed |-> processed]
      [] outcome = "add_attachment raises" ->
            [ret |-> <<>>, issues |-> issues \cup {key}, processed |-> processed]

\* Mutant: update_jira_ticket returns True whatever the Jira client did.
update_jira_ticket_always(outcome) == TRUE

\* update_jira_ticket: its return value.
update_jira_ticket(outcome) == outcome = "ok"

\* Lines 150-166: the tracker call and the status update that follows it.
ProcessSync ==
    /\ Alive /\ wpc = "sync"
    /\ LET m == messages[idx]
           cat == category
       IN IF cat.kind = "existing"
          THEN \E o \in UpdateOutcomes(email_data.attachments) :
                  /\ IF update_jira_ticket(o)
                     THEN CallUpdateStatus("Completed",
                                           Detail("Updated ticket ", KeyArg(cat.key)),
                                           "return")
                     ELSE wpc' = "return" /\ upd' = upd
                  /\ hist' = [hist EXCEPT ![m].calls = @ + 1,
                                          ![m].trackerFailed = (o # "ok")]
                  /\ UNCHANGED <<jiraIssues, processed_tickets>>
          ELSE \E o \in CreateOutcomes(email_data.attachments) :
                  LET r == create_jira_ticket(o, jiraIssues, processed_tickets) IN
                  /\ IF r.ret # <<>>
                     THEN CallUpdateStatus("Completed",
                                           Detail("Created ticket ", KeyArg(r.ret)),
                                           "return")
                     ELSE CallUpdateStatus("Failed",
                                           Detail("Failed to create ticket", PyNone),
                                           "return")
                  /\ jiraIssues' = r.issues
                  /\ processed_tickets' = r.processed
                  /\ hist' = [hist EXCEPT ![m].calls = @ + 1,
                                          ![m].trackerFailed = (o # "ok"),
                                          ![m].created = r.issues \ jiraIssues,
                                          ![m].description =
                                              IF r.issues # jiraIssues
                                              THEN IssueDescription(summary) ELSE PyNone]
    /\ UNCHANGED <<mailVars, mainVars, loopVars, email_id, email_data, summary_response, summary,
                   category,
                   ledgerVars, notifications, nextId, ostack>>

\* process_new_email returns to the for loop of monitor_inbox; issue_dict goes
\* with its other locals.
ProcessReturn ==
    /\ Alive /\ wpc = "return"
    /\ hist' = [hist EXCEPT ![messages[idx]].returned = TRUE,
                            ![messages[idx]].description = PyNone]
    /\ email_id' = 0
    /\ email_data' = NoEmail
    /\ summary_response' = NotCalled
    /\ summary' = NotCalled
    /\ category' = NotCalled
    /\ idx' = idx + 1
    /\ wpc' = "for"
    /\ UNCHANGED <<mailVars, mainVars, messages, upd, ledgerVars, jiraVars, nextId, ostack>>

(***************************************************************************)
(* The dashboard threads: update_dashboard, get_status_df and              *)
(* calculate_success_rate, each taking self.lock, a threading.Lock.        *)
(***************************************************************************)
LedgerOps == {"update_dashboard", "get_status_df", "calculate_success_rate"}

\* A call of a ledger operation: where it is, how many steps of its body it
\* has made, and the value it has built so far.
Frame(op) ==
    [op |-> op, pc |-> "acquire", stage |-> 0,
     ret |-> IF op = "calculate_success_rate" THEN NotCalled ELSE <<>>]

\* round(n / d * 100, 2) in hundredths, for integers n >= 0 and d > 0: the
\* nearest hundredth, the even one on a tie.
Round2(n, d) ==
    LET q == (n * 10000) \div d
        r == (n * 10000) % d
    IN IF 2 * r < d THEN q
       ELSE IF 2 * r > d THEN q + 1
       ELSE IF q % 2 = 0 THEN q ELSE q + 1

\* Mutant: total counts the records that have reached a terminal status.
calculate_success_rate_terminal(ps) ==
    LET completed == Cardinality({id \in DOMAIN ps : ps[id].status = "Completed"})
        total == Cardinality({id \in DOMAIN ps : ps[id].status \in Terminal})
    IN IF total > 0 THEN Round2(completed, total) ELSE Round2(1, 1)

\* The value calculate_success_rate returns on ledger ps (lines 112-114), in
\* hundredths of a percent.
calculate_success_rate(ps) ==
    LET completed == Cardinality({id \in DOMAIN ps : ps[id].status = "Completed"})
        total == Cardinality(DOMAIN ps)
    IN IF total > 0 THEN Round2(completed, total) ELSE Round2(1, 1)

\* One element of the list get_status_df builds (lines 78-83).
Row(id, info) ==
    [email_id |-> id, status |-> info.status, timestamp |-> info.timestamp,
     details |-> info.details]

Top(t) == ostack[t][Len(ostack[t])]
SetTop(t, f) == [ostack EXCEPT ![t] = [@ EXCEPT ![Len(@)] = f]]

\* The calls update_dashboard makes while it holds the lock (lines 94-95).
NestedCalls == <<"calculate_success_rate", "get_status_df">>

\* A dashboard thread calls one of the ledger's operations.
ObserverCall(t) ==
    /\ Alive /\ ostack[t] = <<>>
    /\ \E op \in LedgerOps : ostack' = [ostack EXCEPT ![t] = <<Frame(op)>>]
    /\ UNCHANGED <<mailVars, mainVars, loopVars, procVars, ledgerVars, jiraVars, nextId,
                   wpc, hist>>

\* with self.lock: the lock is not reentrant, so it must be free.
ObserverAcquire(t) ==
    /\ Alive /\ ostack[t] # <<>>
    /\ Top(t).pc = "acquire"
    /\ LockIsFree(lock)
    /\ lock' = t
    /\ ostack' = SetTop(t, [Top(t) EXCEPT !.pc = "held"])
    /\ UNCHANGED <<mailVars, mainVars, loopVars, procVars, processing_status, clock,
                   jiraVars, nextId, wpc, hist>>

\* The body of the with block.  update_dashboard calls the next of its
\* nested operations; get_status_df reads the ledger's items one at a time
\* into its list; calculate_success_rate computes its value; an operation that
\* has its value returns it and the with block releases the lock.
ObserverBody(t) ==
    /\ Alive /\ ostack[t] # <<>>
    /\ Top(t).pc = "held"
    /\ LET f == Top(t)
           unread == DOMAIN processing_status \ DOMAIN f.ret
       IN IF f.op = "update_dashboard" /\ f.stage < Len(NestedCalls)
          THEN /\ ostack' = [ostack EXCEPT ![t] =
                               Append([@ EXCEPT ![Len(@)].stage = @ + 1],
                                      Frame(NestedCalls[f.stage + 1]))]
               /\ lock' = lock
          ELSE IF f.op = "get_status_df" /\ unread # {}
          THEN LET id == CHOOSE x \in unread : \A y \in unread : x <= y IN
               /\ ostack' = SetTop(t, [f EXCEPT !.ret =
                                DictSet(f.ret, id, Row(id, processing_status[id]))])
               /\ lock' = lock
          ELSE IF f.op = "calculate_success_rate" /\ f.stage = 0
          THEN /\ ostack' = SetTop(t, [f EXCEPT !.stage = 1, !.ret =
                                          calculate_success_rate(processing_status)])
               /\ lock' = lock
          ELSE /\ ostack' = [ostack EXCEPT ![t] = SubSeq(@, 1, Len(@) - 1)]
               /\ lock' = Free
    /\ UNCHANGED <<mailVars, mainVars, loopVars, procVars, processing_status, clock,
                   jiraVars, nextId, wpc, hist>>

(***************************************************************************)
(* The shutdown signal.                                                    *)
(***************************************************************************)
\* signal_handler: automation.stop() (lines 304-305, 205-207).  The message
\* process_new_email is working on at this moment is noted.
SignalStop ==
    /\ mainpc = "serving"
    /\ running' = FALSE
    /\ mainpc' = "handler"
    /\ hist' = IF email_id # 0 THEN [hist EXCEPT ![messages[idx]].atStop = TRUE] ELSE hist
    /\ UNCHANGED <<should_run, mailVars, loopVars, procVars, ledgerVars, jiraVars, nextId,
                   wpc, ostack>>

\* signal_handler: dashboard.cleanup() and sys.exit(0) (lines 306-307).  The
\* worker is a daemon thread and ends with the process, wherever it is; the
\* memory of the process is gone, the mailbox and the tracker remain.
SignalExit ==
    /\ mainpc = "handler"
    /\ should_run' = FALSE
    /\ mainpc' = "exited"
    /\ wpc' = "killed"
    /\ messages' = <<>> /\ idx' = 1
    /\ email_id' = 0 /\ email_data' = NoEmail
    /\ summary_response' = NotCalled /\ summary' = NotCalled /\ category' = NotCalled
    /\ upd' = NoUpdate
    /\ nextId' = 1 /\ clock' = 0
    /\ processing_status' = <<>> /\ lock' = Free
    /\ ostack' = [t \in Observers |-> <<>>]
    /\ processed_tickets' = {}
    /\ hist' = [m \in Msgs |-> NoHist]
    /\ UNCHANGED <<running, mailVars, jiraIssues, notifications>>

WorkerNext ==
    \/ MonitorWhile
    \/ MonitorPoll
    \/ MonitorFor
    \/ MonitorFetch
    \/ MonitorSleep
    \/ ProcessParse
    \/ ProcessSummarize
    \/ ProcessCategorize
    \/ ProcessSync
    \/ ProcessReturn
    \/ UpdateStatusAcquire
    \/ UpdateStatusWrite

ObserverNext == \E t \in Observers : ObserverCall(t) \/ ObserverAcquire(t) \/ ObserverBody(t)

Next ==
    \/ WorkerNext
    \/ ObserverNext
    \/ SignalStop
    \/ SignalExit

\* The whole program: the worker, the dashboard threads and the signal handler.
Spec == Init /\ [][Next]_vars

\* The program while no dashboard thread calls the ledger.  The dashboard
\* threads write nothing the worker reads and can only delay the worker at the
\* lock, so what the worker does in a run of Spec it does in a run of
\* PipelineSpec.
PipelineNext ==
    \/ WorkerNext
    \/ SignalStop
    \/ SignalExit

PipelineSpec == Init /\ [][PipelineNext]_vars

(***************************************************************************)
(* categorize_email alone, called once on each subject of a bounded set.   *)
(***************************************************************************)
\* Pieces of subject lines: parts of keywords in either case, parts of
\* ticket references, whole ticket references and filler.
Fragments ==
    { <<"d","e">>, <<"A","L">>, <<"S","p","a","m">>, <<"A","B">>, <<"-">>, <<"1","2">>,
      <<"x">>, <<" ">>, <<"T","-","7">>, <<"Q","-","3">> }

RECURSIVE SubjectsOf(_)
SubjectsOf(n) ==
    IF n = 0 THEN {<<>>}
    ELSE LET shorter == SubjectsOf(n - 1) IN
         shorter \cup {p \o f : p \in shorter, f \in Fragments}

Subjects == SubjectsOf(MaxFragments)

CategorizeInit ==
    /\ running = TRUE
    /\ mainpc = "serving"
    /\ should_run = TRUE
    /\ imapAlive = TRUE
    /\ seen = {}
    /\ wpc = "categorize_call"
    /\ messages = <<>>
    /\ idx = 1
    /\ email_id = 0
    /\ email_data \in {[subject |-> subj, attachments |-> FALSE] : subj \in Subjects}
    /\ summary_response = NotCalled
    /\ summary = NotCalled
    /\ category = NotCalled
    /\ upd = NoUpdate
    /\ nextId = 1
    /\ clock = 0
    /\ processing_status = <<>>
    /\ lock = Free
    /\ ostack = [t \in Observers |-> <<>>]
    /\ jiraIssues = {}
    /\ processed_tickets = {}
    /\ notifications = {}
    /\ hist = [m \in Msgs |-> NoHist]

\* category = self.categorize_email(email_data['subject'], ...)
CategorizeCall ==
    /\ wpc = "categorize_call"
    /\ category' = categorize_email(email_data.subject)
    /\ wpc' = "categorize_done"
    /\ UNCHANGED <<mailVars, mainVars, loopVars, email_id, email_data, summary_response,
                   summary, upd, ledgerVars, jiraVars, nextId, ostack, hist>>

CategorizeSpec == CategorizeInit /\ [][CategorizeCall]_vars

(***************************************************************************)
(* The ledger alone: one thread calling update_status with any email id    *)
(* and status, and the dashboard threads calling the reading operations.   *)
(***************************************************************************)
LedgerIds == 1..MaxUpdates
LedgerStatuses == {"Processing", "Completed", "Failed"}

LedgerInit ==
    /\ running = TRUE
    /\ mainpc = "serving"
    /\ should_run = TRUE
    /\ imapAlive = TRUE
    /\ seen = {}
    /\ wpc = "caller"
    /\ messages = <<>>
    /\ idx = 1
    /\ email_id = 0
    /\ email_data = NoEmail
    /\ summary_response = NotCalled
    /\ summary = NotCalled
    /\ category = NotCalled
    /\ upd = NoUpdate
    /\ nextId = 1
    /\ clock = 0
    /\ processing_status = <<>>
    /\ lock = Free
    /\ ostack = [t \in Observers |-> <<>>]
    /\ jiraIssues = {}
    /\ processed_tickets = {}
    /\ notifications = {}
    /\ hist = [m \in Msgs |-> NoHist]

\* update_status(email_id, status, details) is called; the details name the
\* call.
LedgerCall ==
    /\ Alive /\ wpc = "caller"
    /\ clock < MaxUpdates
    /\ \E id \in LedgerIds, status \in LedgerStatuses :
          /\ email_id' = id
          /\ CallUpdateStatus(status, Detail(status, PyNone), "caller")
    /\ UNCHANGED <<mailVars, mainVars, loopVars, email_data, summary_response, summary,
                   category, ledgerVars, jiraVars, nextId, ostack, hist>>

LedgerNext ==
    \/ LedgerCall
    \/ UpdateStatusAcquire
    \/ UpdateStatusWrite
    \/ ObserverNext

LedgerSpec == LedgerInit /\ [][LedgerNext]_vars

(***************************************************************************)
(* Properties.                                                             *)
(***************************************************************************)
Threads == {Worker} \cup Observers

\* The thread is blocked in `with self.lock`.
Waiting(t) ==
    IF t = Worker THEN wpc = "upd_acquire"
    ELSE ostack[t] # <<>> /\ Top(t).pc = "acquire"

\* The ledger record of the latest processing of message m.
HasRecord(m) == hist[m].id \in DOMAIN processing_status
Record(m) == processing_status[hist[m].id]

(***************************************************************************)
(* The classification rule, stated position by position.                   *)
(***************************************************************************)
\* Character c of a subject equals the keyword character d up to case.
SameLetter(c, d) ==
    c = d \/ \E n \in 1..Len(UpperCase) : UpperCase[n] = c /\ LowerCase[n] = d

\* The subject contains one of the spam keywords, in any mix of cases.
RefSpam(subj) ==
    \E kw \in spam_keywords :
        \E i \in 0..(Len(subj) - Len(kw)) :
            \A k \in 1..Len(kw) : SameLetter(subj[i + k], kw[k])

\* Positions i..k of the subject read: uppercase letters, a hyphen, digits.
RefKeyAt(subj, i, k) ==
    \E j \in (i + 1)..(k - 1) :
        /\ \A x \in i..(j - 1) : IsUpper(subj[x])
        /\ subj[j] = "-"
        /\ \A x \in (j + 1)..k : IsDigit(subj[x])

\* The ticket reference the rule names: of the stretches that read as a
\* reference, those starting leftmost, and of these the longest.
RefKey(subj) ==
    LET spans == {sp \in (1..Len(subj)) \X (1..Len(subj)) : RefKeyAt(subj, sp[1], sp[2])} IN
    IF spans = {} THEN <<>>
    ELSE LET sp == CHOOSE a \in spans :
                      \A b \in spans : a[1] < b[1] \/ (a[1] = b[1] /\ a[2] >= b[2])
         IN SubSeq(subj, sp[1], sp[2])

\* The three-step rule: spam keyword, else ticket reference, else new.
RefCategory(subj) ==
    IF RefSpam(subj) THEN [kind |-> "spam", key |-> <<>>]
    ELSE IF RefKey(subj) # <<>> THEN [kind |-> "existing", key |-> RefKey(subj)]
    ELSE [kind |-> "new", key |-> <<>>]

\* C1: with one worker calling update_status and dashboard threads calling
\* update_dashboard, get_status_df and calculate_success_rate, no thread waits
\* forever for the ledger lock: never is a thread waiting for the lock while
\* the lock's holder is itself waiting for it.
C1_NoThreadWaitsForever ==
    ~ \E t \in Threads : Waiting(t) /\ lock # Free /\ Waiting(lock)

\* C2: when process_new_email has returned for a message whose tracker
\* operation (create, update, comment or attachment upload) failed, the
\* message's record is Failed with a failure detail, on the create path and on
\* the update path.
C2_TrackerFailureIsFailed ==
    \A m \in Msgs :
        (hist[m].returned /\ hist[m].trackerFailed) =>
            /\ HasRecord(m)
            /\ Record(m).status = "Failed"
            /\ Record(m).details.text \in {"Failed to create ticket", "Error processing ticket: "}

\* C3: over any sequence of poll cycles, each mailbox message is handed to
\* process_new_email at most once, has at most one tracker create/update made
\* for it, and the ledger holds at most one record per message handed over.
C3_AtMostOnce ==
    /\ \A m \in Msgs : hist[m].handed <= 1 /\ hist[m].calls <= 1
    /\ Cardinality(DOMAIN processing_status)
          <= Cardinality({m \in Msgs : hist[m].handed > 0})

\* C3 witness: message 2 was processed in a cycle in which the fetch of
\* message 1 raised, and a later cycle lists message 1 alone.
C3_Witness ==
    /\ wpc = "for" /\ messages = <<1>>
    /\ hist[2].handed = 1 /\ hist[2].returned /\ hist[1].handed = 0

\* C4: when the session aborts during select, search or fetch while the
\* run-flag is set, the watcher re-establishes the session and polls again:
\* monitor_inbox never ends on the abort while the run-flag is set.
C4_WatcherSurvivesAbort == ~(wpc = "raised" /\ running)

C6_TerminalIsFinal ==
    [][ mainpc' # "exited" =>
          \A id \in DOMAIN processing_status :
              processing_status[id].status \in Terminal =>
                  /\ id \in DOMAIN processing_status'
                  /\ processing_status'[id].status = processing_status[id].status ]_vars

\* C6 witness: a record is terminal while the worker writes the status of a
\* later message.
C6_Witness ==
    /\ wpc = "upd_write"
    /\ \E id \in DOMAIN processing_status :
          id # email_id /\ processing_status[id].status \in Terminal

\* C7: a message is marked seen only after a terminal status has been
\* recorded for it: no message is seen while its record is absent or
\* non-terminal.
C7_SeenOnlyAfterTerminal ==
    Alive => \A m \in seen : HasRecord(m) /\ Record(m).status \in Terminal

\* C8: whenever a message's record is Completed a notification has been sent
\* to its sender, and none is sent for a message that ends Skipped or Failed.
C8_CompletedNotifies ==
    \A m \in Msgs :
        hist[m].returned /\ HasRecord(m) =>
            /\ Record(m).status = "Completed" => m \in notifications
            /\ Record(m).status \in {"Skipped", "Failed"} => m \notin notifications

\* A decodable result with the four keys summary, participants, priority and
\* category.
WellFormedSummary(r) ==
    /\ r.t = "str"
    /\ r.doc.t = "dict"
    /\ DOMAIN r.doc.d = {"summary", "participants", "priority", "category"}

\* C9: summarize_email always returns a well-formed result: a decodable
\* four-key result or the fixed fallback, whatever the upstream service did.
C9_SummarizeWellFormed ==
    summary_response # NotCalled =>
        (WellFormedSummary(summary_response) \/ summary_response = json_dumps(FallbackDoc))

\* C10: when the orchestrator cannot decode the summarization result of a
\* message, no tracker call is made for the message and, once
\* process_new_email has returned, its record is Failed with a
\* summarization-failure detail.
C10_UndecodableFailsWithoutTracker ==
    \A m \in Msgs :
        hist[m].decodeFailed =>
            /\ hist[m].calls = 0
            /\ hist[m].returned =>
                  /\ HasRecord(m)
                  /\ Record(m).status = "Failed"
                  /\ Record(m).details.text = "Summarization failed: "

\* C10 witness: process_new_email has returned for a message whose
\* summarization result could not be decoded.
C10_Witness == \E m \in Msgs : hist[m].decodeFailed /\ hist[m].returned

\* C11: for a message whose subject holds a spam keyword and whose
\* summarization result was decoded, no tracker call is made, and when
\* process_new_email is about to return the message's record is Skipped.
C11_SpamIsSkippedWithoutTracker ==
    (email_id # 0 /\ RefSpam(email_data.subject) /\ summary # NotCalled) =>
        /\ hist[messages[idx]].calls = 0
        /\ wpc = "return" =>
              /\ email_id \in DOMAIN processing_status
              /\ processing_status[email_id].status = "Skipped"

\* C11 witness: process_new_email is about to return for a spam message whose
\* summary was decoded.
C11_Witness ==
    /\ wpc = "return" /\ email_data.subject = SpamSubject /\ summary # NotCalled
    /\ processing_status[email_id].status = "Skipped"

\* C12: on shutdown the message being processed when the signal handler
\* cleared the run-flag has a terminal record when the process exits.
C12_ShutdownFinishesInFlight ==
    [][ (mainpc = "handler" /\ mainpc' = "exited") =>
          \A m \in Msgs :
              hist[m].atStop => (HasRecord(m) /\ Record(m).status \in Terminal) ]_vars

\* C13: on every subject categorize_email returns what the three-step rule
\* gives (spam keyword in any case first, else the leftmost ticket reference,
\* else new), and the call leaves the mailbox, the ledger and the tracker as
\* they were.
C13_CategorizeIsReferenceRule ==
    wpc = "categorize_done" =>
        /\ category = RefCategory(email_data.subject)
        /\ seen = {} /\ processing_status = <<>>
        /\ jiraIssues = {} /\ processed_tickets = {} /\ notifications = {}

\* C13 witness: categorize_email was called on a subject holding a spam
\* keyword in mixed case next to a ticket reference.
C13_Witness ==
    /\ wpc = "categorize_done"
    /\ email_data.subject = <<"T","-","7"," ","S","p","a","m">>
    /\ category.kind = "spam"

\* The calls of operation op that hold the lock: thread and depth.
HeldCalls(op) ==
    {c \in Observers \X (1..2) :
        /\ c[2] <= Len(ostack[c[1]])
        /\ ostack[c[1]][c[2]].op = op
        /\ ostack[c[1]][c[2]].pc = "held"}

CallFrame(c) == ostack[c[1]][c[2]]

\* C14: the value calculate_success_rate has computed is 100 when the ledger
\* holds no record, otherwise the hundredth nearest to completed/total*100,
\* completed counting the Completed records and total all records; it lies
\* between 0 and 100.
C14_SuccessRate ==
    \A c \in HeldCalls("calculate_success_rate") :
        CallFrame(c).stage = 1 =>
            LET f == CallFrame(c)
                total == Cardinality(DOMAIN processing_status)
                completed == Cardinality({id \in DOMAIN processing_status :
                                            processing_status[id].status = "Completed"})
                off == f.ret * total - completed * 10000
            IN /\ f.ret \in 0..10000
               /\ total = 0 => f.ret = 10000
               /\ total > 0 => (2 * off <= total /\ -2 * off <= total)

\* C14 witness: the rate of one Completed record among three was computed,
\* 33.33.
C14_Witness ==
    /\ Cardinality(DOMAIN processing_status) = 3
    /\ \E c \in HeldCalls("calculate_success_rate") :
          CallFrame(c).stage = 1 /\ CallFrame(c).ret = 3333

\* C15: what get_status_df has read of the ledger is, at every moment up to
\* its return, the ledger's present content record by record; the list it
\* returns is the whole ledger as it is at the return.
C15_SnapshotIsLedgerAtOneInstant ==
    \A c \in HeldCalls("get_status_df") :
        LET f == CallFrame(c) IN
        /\ DOMAIN f.ret \subseteq DOMAIN processing_status
        /\ \A id \in DOMAIN f.ret :
              f.ret[id] = [email_id |-> id,
                           status |-> processing_status[id].status,
                           timestamp |-> processing_status[id].timestamp,
                           details |-> processing_status[id].details]

\* C15 witness: get_status_df has read a ledger of two records while the
\* worker waits at the lock with a further update.
C15_Witness ==
    /\ wpc = "upd_acquire"
    /\ \E c \in HeldCalls("get_status_df") :
          /\ DOMAIN CallFrame(c).ret = DOMAIN processing_status
          /\ Cardinality(DOMAIN processing_status) = 2

\* C20: a step changes no record but the one update_status is writing, keyed
\* by its email_id, and removes none: the email ids of the ledger only grow.
C20_UpdateStatusFrame ==
    [][ /\ DOMAIN processing_status \subseteq DOMAIN processing_status'
        /\ \A id \in DOMAIN processing_status :
              processing_status'[id] # processing_status[id] =>
                  (wpc = "upd_write" /\ id = email_id)
        /\ DOMAIN processing_status' \subseteq DOMAIN processing_status \cup {email_id} ]_vars

\* C20 witness: the ledger holds two records after three updates, so one
\* record was rewritten while another was there.
C20_Witness ==
    /\ wpc = "caller" /\ clock = 3
    /\ Cardinality(DOMAIN processing_status) = 2

\* C16: processed_tickets holds exactly the keys create_jira_ticket returned;
\* when the attachment upload failed after the issue was created, the issue
\* is in the tracker, its key is not in processed_tickets, and once
\* process_new_email has returned the message's record is Failed.
C16_RegisteredIffReturned ==
    /\ processed_tickets = UNION {hist[m].created : m \in {x \in Msgs : ~hist[x].trackerFailed}}
    /\ \A m \in Msgs :
          (hist[m].created # {} /\ hist[m].trackerFailed) =>
              /\ hist[m].created \subseteq jiraIssues
              /\ hist[m].created \cap processed_tickets = {}
              /\ hist[m].returned => (HasRecord(m) /\ Record(m).status = "Failed")

\* C16 witness: process_new_email has returned for a message whose issue was
\* created and whose attachment upload then failed, after another message's
\* issue was created and registered.
C16_Witness ==
    /\ processed_tickets # {}
    /\ \E m \in Msgs : hist[m].created # {} /\ hist[m].trackerFailed /\ hist[m].returned

\* process_new_email is working on message m.
InFlight(m) == email_id # 0 /\ hist[m].id = email_id

\* C17: a Completed record belongs to a message with exactly one tracker
\* call, which succeeded, and its details name the ticket: the key the create
\* returned for a message that is neither spam nor carries a reference, the
\* leftmost reference of the subject for a message that carries one.
C17_CompletedNamesTicket ==
    \A m \in Msgs :
        (HasRecord(m) /\ Record(m).status = "Completed") =>
            /\ hist[m].calls = 1 /\ ~hist[m].trackerFailed
            /\ IF hist[m].created # {}
               THEN /\ Record(m).details.text = "Created ticket "
                    /\ Record(m).details.arg.t = "key"
                    /\ hist[m].created = {Record(m).details.arg.k}
                    /\ Record(m).details.arg.k \in jiraIssues
                    /\ InFlight(m) => RefCategory(email_data.subject).kind = "new"
               ELSE /\ Record(m).details.text = "Updated ticket "
                    /\ Record(m).details.arg.t = "key"
                    /\ InFlight(m) =>
                          /\ RefCategory(email_data.subject).kind = "existing"
                          /\ Record(m).details.arg.k = RefKey(email_data.subject)

\* C17 witness: the record of the message 'Fix TICK-45' is Completed with the
\* details 'Updated ticket TICK-45' as process_new_email is about to return.
C17_Witness ==
    /\ wpc = "return" /\ email_data.subject = TicketSubject
    /\ email_id \in DOMAIN processing_status
    /\ processing_status[email_id].status = "Completed"
    /\ processing_status[email_id].details =
          Detail("Updated ticket ", KeyArg(<<"T","I","C","K","-","4","5">>))

\* The record of the message process_new_email is working on.
HasCurrent == email_id \in DOMAIN processing_status
Current == processing_status[email_id]

C19_TrackerCallAfterRecord ==
    /\ wpc = "sync" => (HasCurrent /\ Current.status \notin Terminal)
    /\ \A m \in Msgs : hist[m].calls > 0 => HasRecord(m)

\* C19 witness: the tracker call was made for the second message handed over,
\* the first having ended Skipped.
C19_Witness ==
    /\ wpc = "return" /\ email_id = 2 /\ hist[messages[idx]].calls = 1
    /\ processing_status[1].status = "Skipped"

\* C21: once stop() has cleared the run-flag, the watcher starts no message
\* but one whose flag check had already passed, issues no further poll, and
\* monitor_inbox returns when it reaches its while statement.
C21_NoPollAfterStop ==
    [][ (~running /\ mainpc' # "exited") =>
          /\ wpc' = "fetch" => wpc = "fetch"
          /\ ~(wpc = "poll" /\ wpc' # "poll")
          /\ (wpc = "while" /\ wpc' # "while") => wpc' = "returned" ]_vars

\* C21 as the code has it: once stop() has cleared the run-flag the watcher
\* passes no further flag check, so it issues at most the one command whose
\* check had passed, a fetch or a poll; it comes to no new fetch and no new
\* poll, and monitor_inbox returns when it reaches its while statement.
C21_NoFlagCheckPassesAfterStop ==
    [][ (~running /\ mainpc' # "exited") =>
          /\ wpc' = "fetch" => wpc = "fetch"
          /\ wpc' = "poll" => wpc = "poll"
          /\ (wpc = "for" /\ wpc' # "for") => wpc' = "sleep"
          /\ (wpc = "while" /\ wpc' # "while") => wpc' = "returned" ]_vars

\* C21 witness: stop() has cleared the run-flag while the watcher, past its
\* while check, is about to poll, a message having been processed before.
C21_Witness ==
    /\ ~running /\ Alive /\ wpc = "poll"
    /\ \E m \in Msgs : hist[m].returned

\* C22: while process_new_email works on a message whose summarization
\* request raised, the fallback reply is decoded and the message is not
\* failed at the summarization stage; unless it is spam it reaches the
\* tracker call; an issue created for it has the description built from the
\* fallback text, and its record is Completed when the create succeeded.
C22_FallbackGoesOn ==
    \A m \in Msgs :
        (InFlight(m) /\ summary_response = PyStr(FallbackDoc)) =>
            /\ ~hist[m].decodeFailed
            /\ summary = PyText(FallbackText, 43)
            /\ Record(m).details.text # "Summarization failed: "
            /\ (wpc = "return" /\ ~RefSpam(email_data.subject)) => hist[m].calls = 1
            /\ hist[m].created # {} =>
                  /\ hist[m].description =
                        [head |-> "Summary:\n", summary |-> PyText(FallbackText, 43),
                         tail |-> "\n"]
                  /\ (wpc = "return" /\ ~hist[m].trackerFailed) =>
                        Record(m).status = "Completed"

\* C22 witness: the message 'Server down', whose summarization request
\* raised, is Completed with a created issue as process_new_email is about to
\* return.
C22_Witness ==
    /\ wpc = "return" /\ email_data.subject = PlainSubject
    /\ summary_response = PyStr(FallbackDoc)
    /\ hist[messages[idx]].created # {}
    /\ processing_status[email_id].status = "Completed"
    /\ processing_status[email_id].details.text = "Created ticket "

====
